---------------------------- MODULE Spec2Model ----------------------------
(***************************************************************************)
(* secretmangle: heap cells whose bytes are kept XOR-masked with a random  *)
(* key.  The model covers the mask primitive (src/src/arbitrary/           *)
(* xor_intrinsic.rs, src/src/nouninit.rs), the two cells                   *)
(* MangledBoxArbitrary (src/src/arbitrary.rs) and MangledBox               *)
(* (src/src/nouninit.rs), and MangledOption (src/src/option.rs).           *)
(*                                                                         *)
(* Bytes are ByteBits wide instead of 8 and a value of type T occupies     *)
(* SizeOfT bytes; XOR is computed bit by bit.                              *)
(***************************************************************************)
EXTENDS Integers, Sequences, FiniteSets, TLC

\* ------------------------------------------------------------------ bounds
ByteBits == 1
SizeOfT == 2
MaxAddr == 2
RamLen == 4
MaxCalls == 2

\* ------------------------------------------------------------------- bytes
Byte == 0 .. (2 ^ ByteBits - 1)
Index == 0 .. (SizeOfT - 1)
Image == [Index -> Byte]
Addr == 1 .. MaxAddr

Zero == [i \in Index |-> 0]
Ones == [i \in Index |-> 2 ^ ByteBits - 1]
Unit == [i \in Index |-> IF i = 0 THEN 1 ELSE 0]

RECURSIVE XorBits(_, _, _)
XorBits(a, b, n) ==
    IF n = 0 THEN 0
    ELSE (((a % 2) + (b % 2)) % 2) + 2 * XorBits(a \div 2, b \div 2, n - 1)

\* XorBits on every pair of bytes, computed once
XorTable == [a \in Byte |-> [b \in Byte |-> XorBits(a, b, ByteBits)]]

\* mutant of XorByte: the key byte is stored instead of XORed in
MovByte(a, b) == b

\* the `xor` / `eor` / `^` of one byte
XorByte(a, b) == XorTable[a][b]

\* reference XOR of two images, used to state properties only
XorImage(d, k) == [i \in Index |-> XorByte(d[i], k[i])]

\* --------------------------------------------------------- mask primitive
\* A memory m is a function from byte addresses to bytes.  data and key are
\* addresses in it and size is size_of::<T>().  A loop returns the memory it
\* leaves and the index it ends with, which is the number of iterations made.

\* mutant of xor_loop_x86_64: the loop tests after the body
RECURSIVE xor_loop_x86_64_test_last(_, _, _, _, _)
xor_loop_x86_64_test_last(m, data, key, size, index) ==
    LET key_byte == m[key + index]
        m2 == [m EXCEPT ![data + index] = XorByte(m[data + index], key_byte)]
    IN IF index + 1 >= size THEN [m |-> m2, index |-> index + 1]
       ELSE xor_loop_x86_64_test_last(m2, data, key, size, index + 1)

\* x86_64: cmp index,size / jae / mov key_byte,[key+index] /
\*         xor [data+index],key_byte / add index,1 / jmp
RECURSIVE xor_loop_x86_64(_, _, _, _, _)
xor_loop_x86_64(m, data, key, size, index) ==
    IF index >= size THEN [m |-> m, index |-> index]
    ELSE LET key_byte == m[key + index]
             m2 == [m EXCEPT ![data + index] = XorByte(m[data + index], key_byte)]
         IN xor_loop_x86_64(m2, data, key, size, index + 1)

\* mutant of xor_loop_aarch64: the loop is left one byte early
RECURSIVE xor_loop_aarch64_short(_, _, _, _, _)
xor_loop_aarch64_short(m, data, key, size, index) ==
    IF index + 1 < size
    THEN LET key_byte == m[key + index]
             tmp == m[data + index]
             m2 == [m EXCEPT ![data + index] = XorByte(tmp, key_byte)]
         IN xor_loop_aarch64_short(m2, data, key, size, index + 1)
    ELSE [m |-> m, index |-> index]

\* aarch64: b 2f / 1: ldrb key_byte / ldrb tmp / eor / strb / add / 2: cmp / b.lo 1b
RECURSIVE xor_loop_aarch64(_, _, _, _, _)
xor_loop_aarch64(m, data, key, size, index) ==
    IF index < size
    THEN LET key_byte == m[key + index]
             tmp == m[data + index]
             m2 == [m EXCEPT ![data + index] = XorByte(tmp, key_byte)]
         IN xor_loop_aarch64(m2, data, key, size, index + 1)
    ELSE [m |-> m, index |-> index]

\* mutant of xor_loop_volatile: the key byte is read once, before the loop
RECURSIVE xor_loop_volatile_stale(_, _, _, _, _)
xor_loop_volatile_stale(m, data, key, size, i) ==
    IF i \in 0 .. (size - 1)
    THEN LET data_byte == m[data + i]
             key_byte == m[key]
         IN xor_loop_volatile_stale([m EXCEPT ![data + i] = XorByte(data_byte, key_byte)],
                                    data, key, size, i + 1)
    ELSE [m |-> m, index |-> i]

\* nouninit.rs: for i in 0..size_of::<T>() { read, read, write_volatile }
RECURSIVE xor_loop_volatile(_, _, _, _, _)
xor_loop_volatile(m, data, key, size, i) ==
    IF i \in 0 .. (size - 1)
    THEN LET data_byte == m[data + i]
             key_byte == m[key + i]
         IN xor_loop_volatile([m EXCEPT ![data + i] = XorByte(data_byte, key_byte)],
                              data, key, size, i + 1)
    ELSE [m |-> m, index |-> i]

Loops == {"x86_64", "aarch64", "volatile"}

\* the operands of the asm! block of each target_arch, each with the register
\* class it asks for
AsmOperands ==
    [x86_64 |-> {[name |-> "index", class |-> "reg"], [name |-> "size", class |-> "reg"],
                 [name |-> "data", class |-> "reg"], [name |-> "key", class |-> "reg"],
                 [name |-> "key_byte", class |-> "reg_byte"]},
     aarch64 |-> {[name |-> "key_byte", class |-> "reg_byte"], [name |-> "tmp", class |-> "reg"],
                  [name |-> "index", class |-> "reg"], [name |-> "size", class |-> "reg"],
                  [name |-> "data", class |-> "reg"], [name |-> "key", class |-> "reg"]}]

\* the register classes that asm! has for each target_arch (The Rust
\* Reference, Inline assembly, Register operands)
RegisterClasses ==
    [x86_64 |-> {"reg", "reg_abcd", "reg_byte", "xmm_reg", "ymm_reg", "zmm_reg",
                 "kreg", "kreg0", "mmx_reg", "x87_reg", "tmm_reg"},
     aarch64 |-> {"reg", "vreg", "vreg_low16", "preg"}]

\* rustc accepts the asm! block of the target: every operand asks for a
\* register class that the target has
Compiles(target) == \A o \in AsmOperands[target] : o.class \in RegisterClasses[target]

xor_loop(loop, m, data, key, size) ==
    IF loop = "x86_64" THEN xor_loop_x86_64(m, data, key, size, 0)
    ELSE IF loop = "aarch64" THEN xor_loop_aarch64(m, data, key, size, 0)
    ELSE xor_loop_volatile(m, data, key, size, 0)

VARIABLES
    arch,       \* target_arch the crate is compiled for
    prog,       \* the client program: it exercises a cell ("box") or an
                \* optional ("option"), or it exercises an optional and keeps
                \* what map_mut and map_mut_or_else return ("observer")
    cell,       \* the client's stand-alone cell
    option,     \* the client's MangledOption
    taken,      \* the MangledOption returned by take()
    newbox,     \* insert_by_ptr's local new_content_box
    frame,      \* the scoped access in progress, if any
    allocated,  \* heap addresses currently allocated
    mem,        \* heap contents, by address
    last,       \* ghost: the image last written by a closure at an address
    val,        \* ghost: whether a T value was constructed at an address
    drops,      \* ghost: destructor runs on the value last constructed at an address
    hist,       \* ghost: whether the cell at an address was rekeyed since the
                \* last write, and whether its last closure panicked
    getrandom,  \* ghost: calls of getrandom::fill_uninit by the latest operation
    ret,        \* what the client keeps of the latest operation's return, or
                \* of what a destructor reported
    ram,        \* the buffers of the tests of the mask primitive, as one memory
    ram0,       \* what the buffers held before the first call
    call,       \* the call that the test makes, and how often it has made it
    twin,       \* the MangledBox that a test runs side by side with cell
    goal,       \* the plaintext and the masked image that a test aims at
    zst,        \* the cell over a zero-sized type that a test exercises
    run         \* the latest operation of a cell as the calls it makes: the
                \* cell's type and pointers, the position in the operation,
                \* and the log of the calls made so far

\* the state of the tests: of the mask primitive, of the two cells side by
\* side, of the masked images
bench == <<ram, ram0, call, twin, goal, zst, run>>

\* the state of the client of the cells
client == <<prog, cell, option, taken, newbox, frame, allocated, mem,
            last, val, drops, hist, getrandom, ret>>

vars == <<arch, prog, cell, option, taken, newbox, frame, allocated, mem,
          last, val, drops, hist, getrandom, ret, ram, ram0, call, twin, goal, zst, run>>

\* xor_chunks_intrinsic_baseline::<T>(data, key), with size_of::<T>() = size
xor_chunks_intrinsic_baseline(size, m, data, key) ==
    xor_loop(arch, m, data, key, size).m

\* arbitrary.rs xor_chunks / nouninit.rs xor_chunks (the fence orders, it
\* changes no byte)
xor_chunks(kind, size, m, data, key) ==
    IF kind = "plain" THEN xor_loop("volatile", m, data, key, size).m
    ELSE xor_chunks_intrinsic_baseline(size, m, data, key)

\* xor_chunks::<T> on two disjoint regions holding d and k, the first at
\* address 0 and the second after it: the new data image
Mask(kind, d, k) ==
    LET m == [x \in 0 .. (2 * SizeOfT - 1) |-> IF x < SizeOfT THEN d[x] ELSE k[x - SizeOfT]]
        r == xor_chunks(kind, SizeOfT, m, 0, SizeOfT)
    IN [i \in Index |-> r[i]]

\* xor_chunks::<T> with the same pointer in both arguments
SelfMask(kind, d) ==
    LET r == xor_chunks(kind, SizeOfT, d, 0, 0)
    IN [i \in Index |-> r[i]]


\* ------------------------------------------------------------------ cells
\* A cell value b is [data |-> image in the heap allocation, key |-> image of
\* the inline key].  kind is "arbitrary" (MangledBoxArbitrary) or "plain"
\* (MangledBox); the two differ in the xor_chunks they call.
Kinds == {"arbitrary", "plain"}

\* new(): Box::new_zeroed() and a key filled by getrandom
new(k) == [data |-> Zero, key |-> k]

\* mutant of rekey: the difference is XORed into the data only
rekey_data_only(kind, b, diff_key) ==
    [data |-> Mask(kind, b.data, diff_key), key |-> b.key]

\* mutant of rekey: the difference is XORed into the key only
rekey_key_only(kind, b, diff_key) ==
    [data |-> b.data, key |-> Mask(kind, b.key, diff_key)]

\* rekey(): xor_chunks(data, diff_key); xor_chunks(key, diff_key)
rekey(kind, b, diff_key) ==
    [data |-> Mask(kind, b.data, diff_key), key |-> Mask(kind, b.key, diff_key)]

\* mutant of unmangle: f is called on the region as stored
unmangle_skipped(kind, b) == b

\* with_unmangled(), up to the call of f: xor_chunks(data_ptr, key_ptr)
unmangle(kind, b) == [b EXCEPT !.data = Mask(kind, b.data, b.key)]

\* mutant of RemangleGuard_drop: the remask is left out
RemangleGuard_drop_skipped(kind, b) == b

\* RemangleGuard::drop, run when with_unmangled's scope ends
RemangleGuard_drop(kind, b) == [b EXCEPT !.data = Mask(kind, b.data, b.key)]

\* mutant of with_unmangled_exit: the remask is a call after f instead of a
\* guard, so a panic of f skips it
with_unmangled_exit_no_guard(kind, b, panicked) ==
    IF panicked THEN b ELSE [b EXCEPT !.data = Mask(kind, b.data, b.key)]

\* with_unmangled(), from the return or the panic of f on: the guard is a
\* local of the frame, so it is dropped on both ways out
with_unmangled_exit(kind, b, panicked) == RemangleGuard_drop(kind, b)

\* mutant of box_drop: only the data region is wiped
box_drop_data_only(kind, b) == [data |-> SelfMask(kind, b.data), key |-> b.key]

\* Drop for the cell: xor_chunks(data_ptr, data_ptr); xor_chunks(key_ptr, key_ptr)
box_drop(kind, b) == [data |-> SelfMask(kind, b.data), key |-> SelfMask(kind, b.key)]

\* --------------------------------------------------------- client inputs
\* Outputs of getrandom::fill_uninit that the runs draw from
RandomOutputs == {Zero, Unit, Ones}

\* Images a closure may write into the unmasked region
Writable == {Zero, Unit, Ones}

\* What a closure does with the region it is handed: read it only, or write an
\* image (constructing a value there); it then returns or panics
Closures == [do : {"read"}, img : {Zero}] \cup [do : {"write"}, img : Writable]

Idle == [op |-> "idle", who |-> "none"]
NoCell == [st |-> "none", kind |-> "arbitrary", ptr |-> 1, key |-> Zero]
Fresh == [rekeyed |-> FALSE, panicked |-> FALSE]
NoOption == [st |-> "unborn", tag |-> "None", ptr |-> 1, key |-> Zero]

\* the test buffers
RamAddr == 0 .. (RamLen - 1)
ZeroRam == [x \in RamAddr |-> 0]

\* A call of a test is [loop, data, key, size, n, index]: the loop called, its
\* two pointers, size_of::<S>(), the number of calls made and the index that
\* the latest of them ended with.
NoCall == [loop |-> "none", data |-> 0, key |-> 0, size |-> 0, n |-> 0, index |-> 0]

NoGoal == [p |-> Zero, m |-> Zero]

\* no test runs
\* A cell over a zero-sized type is [st, kind, align, data, key, handed,
\* used]: align_of::<T>(), the pointer of the Box, the address of the key
\* field, the pointer that the closure running holds (0 when none runs), and
\* whether a closure has run.
NoZst == [st |-> "none", kind |-> "arbitrary", align |-> 1, data |-> 0, key |-> 0,
          handed |-> 0, used |-> FALSE]

\* An event of the log is [ev, data, key, ok]: the call made ("alloc",
\* "getrandom", "xor", "fence", "f", "free"), its pointer arguments (0 where
\* it has none) and whether it succeeded.
NoRun == [op |-> "none", kind |-> "arbitrary", size |-> 0, align |-> 1,
          data |-> 0, key |-> 0, diff_key |-> 0, pc |-> 0, log |-> <<>>]

NoBench ==
    /\ ram = ZeroRam /\ ram0 = ZeroRam /\ call = NoCall
    /\ twin = NoCell /\ goal = NoGoal /\ zst = NoZst /\ run = NoRun

\* What the client keeps of a call is [api, kind, by, img]: the method
\* called, the kind of value returned (an R, or Some(R) or None of an
\* Option<R>), the closure that made the R, and the R itself, which is the
\* image of a T.  "unit" is nothing kept: (), Self, no return because of a
\* panic or because the operation is still running.
NoReturn == [api |-> "none", kind |-> "unit", by |-> "none", img |-> Zero]

\* what the client keeps of r, returned by api
Keep(api, r) == IF prog = "observer" THEN [r EXCEPT !.api = api] ELSE NoReturn

\* the R that closure c returns when it was handed image d: the value as it
\* leaves it (|x| { *x += 1; *x })
Returns(c, d) ==
    [api |-> "none", kind |-> "R", by |-> "f", img |-> IF c.do = "write" THEN c.img ELSE d]

\* the R that the caller's default() returns
DefaultR == [api |-> "none", kind |-> "R", by |-> "default", img |-> Zero]

\* Option<R>
SomeR(r) == [r EXCEPT !.kind = "Some"]
NoneR(r) == [r EXCEPT !.kind = "None"]

\* the (masked byte, value) pairs that the client XORs through as_ptr(): the
\* lowest bit of the first or of the last byte
RawXors == [i : {0, SizeOfT - 1}, m : {1}]

Init ==
    /\ arch \in {"x86_64", "aarch64"}
    /\ prog \in {"box", "option"}
    /\ cell = NoCell
    /\ option = NoOption
    /\ taken = NoOption
    /\ newbox = NoCell
    /\ frame = Idle
    /\ allocated = {}
    /\ mem = [a \in Addr |-> Zero]
    /\ last = [a \in Addr |-> Zero]
    /\ val = [a \in Addr |-> "uninit"]
    /\ drops = [a \in Addr |-> 0]
    /\ hist = [a \in Addr |-> Fresh]
    /\ getrandom = 0
    /\ ret = NoReturn
    /\ NoBench

\* the cell value of a cell record c
BoxOf(c) == [data |-> mem[c.ptr], key |-> c.key]

\* Box::new_zeroed() returns a, an address not allocated now.  Addresses are
\* interchangeable, and the allocator hands out the lowest free one.
Alloc(a) ==
    /\ a \notin allocated
    /\ \A b \in Addr : b < a => b \in allocated
    /\ allocated' = allocated \cup {a}

\* the heap and what lives in it, as one value
Heap == [allocated |-> allocated, mem |-> mem, val |-> val, drops |-> drops]

SetHeap(h) ==
    /\ allocated' = h.allocated
    /\ mem' = h.mem
    /\ val' = h.val
    /\ drops' = h.drops

\* MangledBoxArbitrary::drop_in_place() on the cell c: with_unmangled(|p|
\* p.drop_in_place()), i.e. unmask, T's destructor on the value, remask
drop_in_place(c, h) ==
    LET u == unmangle("arbitrary", [data |-> h.mem[c.ptr], key |-> c.key])
        b == with_unmangled_exit("arbitrary", u, FALSE)
    IN [h EXCEPT !.mem[c.ptr] = b.data,
                 !.drops[c.ptr] = @ + 1,
                 !.val[c.ptr] = "dropped"]

\* mutant of box_teardown: the value in the cell is destroyed first
box_teardown_destroys(c, h) ==
    LET h1 == drop_in_place(c, h)
    IN [h1 EXCEPT !.mem[c.ptr] = box_drop("arbitrary", [data |-> h1.mem[c.ptr], key |-> c.key]).data,
                  !.allocated = @ \ {c.ptr}]

\* a cell of an optional goes out of scope: Drop for MangledBoxArbitrary on
\* its regions, then its Box<MaybeUninit<T>> is freed
box_teardown(c, h) ==
    [h EXCEPT !.mem[c.ptr] = box_drop("arbitrary", [data |-> h.mem[c.ptr], key |-> c.key]).data,
              !.allocated = @ \ {c.ptr}]

\* The ghosts last and hist describe cells that can still be accessed: those
\* of an address that no cell refers to after a step start afresh.
Forget(gone) ==
    /\ last' = [a \in Addr |-> IF a \in gone THEN Zero ELSE last[a]]
    /\ hist' = [a \in Addr |-> IF a \in gone THEN Fresh ELSE hist[a]]

Held(o) == IF o.tag = "Some" THEN {o.ptr} ELSE {}

\* ------------------------------------------------ stand-alone cell actions
\* MangledBoxArbitrary::new() / MangledBox::new()
BoxNew(kind, a, k) ==
    /\ prog = "box" /\ frame = Idle /\ cell.st # "live"
    /\ Alloc(a)
    /\ LET b == new(k)
       IN /\ cell' = [st |-> "live", kind |-> kind, ptr |-> a, key |-> b.key]
          /\ mem' = [mem EXCEPT ![a] = b.data]
    /\ last' = [last EXCEPT ![a] = Zero]
    /\ val' = [val EXCEPT ![a] = "uninit"]
    /\ drops' = [drops EXCEPT ![a] = 0]
    /\ hist' = [hist EXCEPT ![a] = Fresh]
    /\ getrandom' = 1 /\ ret' = NoReturn
    /\ UNCHANGED bench
    /\ UNCHANGED <<arch, prog, option, taken, newbox, frame>>

\* rekey()
BoxRekey(diff_key) ==
    /\ frame = Idle /\ cell.st = "live"
    /\ LET b == rekey(cell.kind, BoxOf(cell), diff_key)
       IN /\ mem' = [mem EXCEPT ![cell.ptr] = b.data]
          /\ cell' = [cell EXCEPT !.key = b.key]
    /\ hist' = [hist EXCEPT ![cell.ptr].rekeyed = TRUE]
    /\ getrandom' = 1 /\ ret' = NoReturn
    /\ UNCHANGED bench
    /\ UNCHANGED <<arch, prog, option, taken, newbox, frame, allocated, last, val, drops>>

\* with_unmangled(f), up to the call of f
BoxEnter ==
    /\ frame = Idle /\ cell.st = "live"
    /\ mem' = [mem EXCEPT ![cell.ptr] = unmangle(cell.kind, BoxOf(cell)).data]
    /\ frame' = [op |-> "with_unmangled", who |-> "cell"]
    /\ getrandom' = 0 /\ ret' = NoReturn
    /\ UNCHANGED bench
    /\ UNCHANGED <<arch, prog, cell, option, taken, newbox, allocated, last, val, drops, hist>>

\* the image closure c leaves in a region that held image d
Left(c, d) == IF c.do = "write" THEN c.img ELSE d

\* with_unmangled(f): f runs, returns or panics, and the guard is dropped
BoxExit(c, panicked) ==
    /\ frame = [op |-> "with_unmangled", who |-> "cell"]
    /\ LET a == cell.ptr
           w == Left(c, mem[a])
           b == with_unmangled_exit(cell.kind, [data |-> w, key |-> cell.key], panicked)
       IN /\ mem' = [mem EXCEPT ![a] = b.data]
          /\ last' = [last EXCEPT ![a] = IF c.do = "write" THEN c.img ELSE @]
          /\ val' = [val EXCEPT ![a] = IF c.do = "write" THEN "init" ELSE @]
          /\ drops' = [drops EXCEPT ![a] = IF c.do = "write" THEN 0 ELSE @]
          /\ hist' = [hist EXCEPT ![a] = [rekeyed |-> @.rekeyed /\ c.do = "read",
                                          panicked |-> panicked]]
    /\ frame' = Idle
    /\ getrandom' = 0 /\ ret' = NoReturn
    /\ UNCHANGED bench
    /\ UNCHANGED <<arch, prog, cell, option, taken, newbox, allocated>>

\* drop_in_place(): with_unmangled(|p| p.drop_in_place()).  The caller
\* asserts that a value is live in the cell; T's destructor runs on it.
BoxDropInPlace ==
    /\ frame = Idle /\ cell.st = "live" /\ cell.kind = "arbitrary"
    /\ val[cell.ptr] = "init"
    /\ SetHeap(drop_in_place(cell, Heap))
    /\ getrandom' = 0 /\ ret' = NoReturn
    /\ UNCHANGED bench
    /\ UNCHANGED <<arch, prog, cell, option, taken, newbox, frame, last, hist>>

\* Drop for MangledBoxArbitrary / MangledBox, then the Box is freed
BoxDrop ==
    /\ frame = Idle /\ cell.st = "live"
    /\ LET b == box_drop(cell.kind, BoxOf(cell))
       IN /\ mem' = [mem EXCEPT ![cell.ptr] = b.data]
          /\ cell' = [cell EXCEPT !.st = "dropped", !.key = b.key]
    /\ allocated' = allocated \ {cell.ptr}
    /\ getrandom' = 0 /\ ret' = NoReturn
    /\ UNCHANGED bench
    /\ UNCHANGED <<arch, prog, option, taken, newbox, frame, last, val, drops, hist>>

BoxNext ==
    \/ \E kind \in Kinds, a \in Addr, k \in RandomOutputs : BoxNew(kind, a, k)
    \/ \E d \in RandomOutputs : BoxRekey(d)
    \/ BoxEnter
    \/ \E c \in Closures, p \in BOOLEAN : BoxExit(c, p)
    \/ BoxDropInPlace
    \/ BoxDrop

\* --------------------------------------------------------- MangledOption
\* An optional o is [st, tag, ptr, key]: tag is the variant, ptr and key are
\* the data pointer and the inline key of the cell of Some(cell).
NoneValue == [st |-> "alive", tag |-> "None", ptr |-> 1, key |-> Zero]
SomeValue(c) == [st |-> "alive", tag |-> "Some", ptr |-> c.ptr, key |-> c.key]

\* mutant of MangledOption_drop: self is overwritten with None and the
\* destructor of the value is never run
MangledOption_drop_forgets(o, h) == [self |-> NoneValue, heap |-> h]

\* Drop::drop(&mut self) of MangledOption: drop_in_place() on the cell of
\* Some, then write(self, Self::None), which overwrites self without dropping
\* what it held
MangledOption_drop(o, h) ==
    LET h1 == IF o.tag = "Some" THEN drop_in_place(o, h) ELSE h
    IN [self |-> NoneValue, heap |-> h1]

\* mutant of drop_glue: the value is overwritten without being dropped
drop_glue_skipped(o, h) == h

\* A MangledOption value is dropped (on assignment over it, or when its owner
\* goes out of scope): Drop::drop runs, then the fields of the variant the
\* value is in after it are dropped
drop_glue(o, h) ==
    LET r == MangledOption_drop(o, h)
    IN IF r.self.tag = "Some" THEN box_teardown(r.self, r.heap) ELSE r.heap

\* mutant of take: the value is copied out and self keeps it
take_copies(o) == [ret |-> o, self |-> o]

\* mutant of take: self is cleared and what is returned is a new, empty
\* optional
take_returns_default(o) == [ret |-> NoneValue, self |-> NoneValue]

\* take(): std::mem::take(self) moves the value out and leaves Default (None)
take(o) == [ret |-> o, self |-> NoneValue]

Opt(o) == IF o = "option" THEN option ELSE taken

SetOpt(o, v) ==
    IF o = "option" THEN option' = v /\ UNCHANGED taken
    ELSE taken' = v /\ UNCHANGED option

Owners == {"option", "taken"}

MapApis == {"map_mut", "map_mut_or_else"}

\* map_mut(f) is map_mut_or_else(|| None, |m| Some(f(m)))
\* mutant of map_f: map_mut hands f to map_mut_or_else as it is
map_f_bare(api, r) == r

map_f(api, r) == IF api = "map_mut" THEN SomeR(r) ELSE r
map_default(api) == IF api = "map_mut" THEN NoneR(DefaultR) ELSE DefaultR

is_some(o) == o.tag = "Some"
is_none(o) == o.tag = "None"

\* mutant of as_ptr: null for every optional
as_ptr_null(o) == 0

\* as_ptr(): with_mangled(|p| p.as_ptr()) hands out the data pointer of the
\* cell as it is, else null_mut()
as_ptr(o) == IF o.tag = "Some" THEN o.ptr ELSE 0

\* MangledOption::new()
OptionNew ==
    /\ prog # "box" /\ frame = Idle /\ option.st # "alive"
    /\ option' = NoneValue
    /\ getrandom' = 0 /\ ret' = NoReturn
    /\ UNCHANGED bench
    /\ UNCHANGED <<arch, prog, cell, taken, newbox, frame, allocated, mem, last, val, drops, hist>>

\* insert_by_ptr(f), up to the call of f: MangledBoxArbitrary::new(), then
\* with_unmangled unmasks the new cell
InsertEnter(a, k) ==
    /\ frame = Idle /\ option.st = "alive"
    /\ Alloc(a)
    /\ LET b == unmangle("arbitrary", new(k))
       IN /\ newbox' = [st |-> "live", kind |-> "arbitrary", ptr |-> a, key |-> b.key]
          /\ mem' = [mem EXCEPT ![a] = b.data]
    /\ last' = [last EXCEPT ![a] = Zero]
    /\ val' = [val EXCEPT ![a] = "uninit"]
    /\ drops' = [drops EXCEPT ![a] = 0]
    /\ hist' = [hist EXCEPT ![a] = Fresh]
    /\ frame' = [op |-> "insert_by_ptr", who |-> "new"]
    /\ getrandom' = 1 /\ ret' = NoReturn
    /\ UNCHANGED bench
    /\ UNCHANGED <<arch, prog, cell, option, taken>>

\* insert_by_ptr(f): f constructs the value and returns, the new cell is
\* remasked, and *self = Self::Some(new_content_box) drops the old value of
\* self and moves the new one in.  If f panics the new cell is remasked and
\* dropped by the unwinding, and self is not touched.
InsertExit(c, panicked) ==
    /\ frame = [op |-> "insert_by_ptr", who |-> "new"]
    /\ panicked \/ c.do = "write"
    /\ LET a == newbox.ptr
           w == Left(c, mem[a])
           b == with_unmangled_exit("arbitrary", [data |-> w, key |-> newbox.key], panicked)
           h1 == [Heap EXCEPT !.mem[a] = b.data,
                              !.val[a] = IF c.do = "write" /\ ~panicked THEN "init" ELSE @]
       IN IF panicked
          THEN /\ SetHeap(box_teardown(newbox, h1))
               /\ UNCHANGED option
               /\ Forget({a})
          ELSE /\ SetHeap(drop_glue(option, h1))
               /\ option' = SomeValue(newbox)
               /\ last' = [x \in Addr |-> IF x = a THEN c.img
                                         ELSE IF x \in Held(option) THEN Zero ELSE last[x]]
               /\ hist' = [x \in Addr |-> IF x \in Held(option) THEN Fresh ELSE hist[x]]
    /\ newbox' = NoCell
    /\ frame' = Idle
    /\ getrandom' = 0 /\ ret' = NoReturn
    /\ UNCHANGED bench
    /\ UNCHANGED <<arch, prog, cell, taken>>

\* map_mut_or_else(default, f) / map_mut(f) on Some, up to the call of f
MapMutEnter(o, api) ==
    /\ frame = Idle /\ Opt(o).st = "alive" /\ Opt(o).tag = "Some"
    /\ mem' = [mem EXCEPT ![Opt(o).ptr] = unmangle("arbitrary", BoxOf(Opt(o))).data]
    /\ frame' = [op |-> api, who |-> o]
    /\ getrandom' = 0 /\ ret' = NoReturn
    /\ UNCHANGED bench
    /\ UNCHANGED <<arch, prog, cell, option, taken, newbox, allocated, last, val, drops, hist>>

\* map_mut on Some: f reads or mutates the live value through &mut T, returns
\* or panics, and the guard remasks
MapMutExit(o, c, panicked) ==
    /\ frame.who = o /\ frame.op \in MapApis
    /\ LET a == Opt(o).ptr
           w == Left(c, mem[a])
           b == with_unmangled_exit("arbitrary", [data |-> w, key |-> Opt(o).key], panicked)
       IN /\ mem' = [mem EXCEPT ![a] = b.data]
          /\ last' = [last EXCEPT ![a] = IF c.do = "write" THEN c.img ELSE @]
          /\ hist' = [hist EXCEPT ![a] = [rekeyed |-> @.rekeyed /\ c.do = "read",
                                          panicked |-> panicked]]
          /\ ret' = IF panicked THEN NoReturn
                 ELSE Keep(frame.op, map_f(frame.op, Returns(c, mem[a])))
    /\ frame' = Idle
    /\ getrandom' = 0
    /\ UNCHANGED bench
    /\ UNCHANGED <<arch, prog, cell, option, taken, newbox, allocated, val, drops>>

\* map_mut_or_else on None: default() runs, nothing is unmasked
MapMutNone(o, api) ==
    /\ frame = Idle /\ Opt(o).st = "alive" /\ Opt(o).tag = "None"
    /\ getrandom' = 0 /\ ret' = Keep(api, map_default(api))
    /\ UNCHANGED bench
    /\ UNCHANGED <<arch, prog, cell, option, taken, newbox, frame, allocated, mem,
                   last, val, drops, hist>>

\* rekey() on Some: forwarded to the cell
OptionRekey(o, diff_key) ==
    /\ frame = Idle /\ Opt(o).st = "alive" /\ Opt(o).tag = "Some"
    /\ LET b == rekey("arbitrary", BoxOf(Opt(o)), diff_key)
       IN /\ mem' = [mem EXCEPT ![Opt(o).ptr] = b.data]
          /\ SetOpt(o, [Opt(o) EXCEPT !.key = b.key])
    /\ hist' = [hist EXCEPT ![Opt(o).ptr].rekeyed = TRUE]
    /\ getrandom' = 1 /\ ret' = NoReturn
    /\ UNCHANGED bench
    /\ UNCHANGED <<arch, prog, cell, newbox, frame, allocated, last, val, drops>>

\* mutant of OptionRekeyNone: a difference key is drawn before the variant is
\* looked at
OptionRekeyNone_draws(o) ==
    /\ frame = Idle /\ Opt(o).st = "alive" /\ Opt(o).tag = "None"
    /\ getrandom' = 1 /\ ret' = NoReturn
    /\ UNCHANGED bench
    /\ UNCHANGED <<arch, prog, cell, option, taken, newbox, frame, allocated, mem,
                   last, val, drops, hist>>

\* rekey() on None
OptionRekeyNone(o) ==
    /\ frame = Idle /\ Opt(o).st = "alive" /\ Opt(o).tag = "None"
    /\ getrandom' = 0 /\ ret' = NoReturn
    /\ UNCHANGED bench
    /\ UNCHANGED <<arch, prog, cell, option, taken, newbox, frame, allocated, mem,
                   last, val, drops, hist>>

\* is_some() / is_none() / as_ptr() and nothing more: reads of self
Query(o) ==
    /\ frame = Idle /\ Opt(o).st = "alive"
    /\ getrandom' = 0 /\ ret' = NoReturn
    /\ UNCHANGED bench
    /\ UNCHANGED <<arch, prog, cell, option, taken, newbox, frame, allocated, mem,
                   last, val, drops, hist>>

\* let p = as_ptr(); *p.add(i) ^= m: the client XORs m into masked byte i
RawXor(o, x) ==
    /\ frame = Idle /\ Opt(o).st = "alive"
    /\ LET p == as_ptr(Opt(o))
       IN /\ p # 0
          /\ mem' = [mem EXCEPT ![p][x.i] = XorByte(@, x.m)]
          /\ last' = [last EXCEPT ![p][x.i] = XorByte(@, x.m)]
    /\ getrandom' = 0 /\ ret' = NoReturn
    /\ UNCHANGED bench
    /\ UNCHANGED <<arch, prog, cell, option, taken, newbox, frame, allocated,
                   val, drops, hist>>

\* clear(): *self = Self::None drops the old value of self
Clear ==
    /\ frame = Idle /\ option.st = "alive"
    /\ SetHeap(drop_glue(option, Heap))
    /\ option' = NoneValue
    /\ Forget(Held(option))
    /\ getrandom' = 0 /\ ret' = NoReturn
    /\ UNCHANGED bench
    /\ UNCHANGED <<arch, prog, cell, taken, newbox, frame>>

\* let taken = option.take()
Take ==
    /\ frame = Idle /\ option.st = "alive" /\ taken.st # "alive"
    /\ LET r == take(option)
       IN /\ taken' = r.ret
          /\ option' = r.self
    /\ getrandom' = 0 /\ ret' = NoReturn
    /\ UNCHANGED bench
    /\ UNCHANGED <<arch, prog, cell, newbox, frame, allocated, mem, last, val, drops, hist>>

\* the owner of an optional goes out of scope
OptionTeardown(o) ==
    /\ frame = Idle /\ Opt(o).st = "alive"
    /\ SetHeap(drop_glue(Opt(o), Heap))
    /\ SetOpt(o, [NoneValue EXCEPT !.st = "dropped"])
    /\ Forget(Held(Opt(o)))
    /\ getrandom' = 0 /\ ret' = NoReturn
    /\ UNCHANGED bench
    /\ UNCHANGED <<arch, prog, cell, newbox, frame>>

OptionNext ==
    \/ OptionNew
    \/ \E a \in Addr, k \in RandomOutputs : InsertEnter(a, k)
    \/ \E c \in Closures, p \in BOOLEAN : InsertExit(c, p)
    \/ \E o \in Owners : MapMutEnter(o, "map_mut")
    \/ \E o \in Owners, c \in Closures, p \in BOOLEAN : MapMutExit(o, c, p)
    \/ \E o \in Owners : MapMutNone(o, "map_mut")
    \/ \E o \in Owners, d \in RandomOutputs : OptionRekey(o, d)
    \/ \E o \in Owners : OptionRekeyNone(o)
    \/ \E o \in Owners : Query(o)
    \/ Clear
    \/ Take
    \/ \E o \in Owners : OptionTeardown(o)

Next == BoxNext \/ OptionNext

Spec == Init /\ [][Next]_vars

\* ------------------------------------------- tests of the mask primitive
Region(ptr, size) == ptr .. (ptr + size - 1)

\* the safety preconditions of the primitive that concern the regions: both
\* inside the buffers, and either non-overlapping or the same
InBuffers(c) == c.data + c.size <= RamLen /\ c.key + c.size <= RamLen
SameOrDisjoint(c) ==
    c.data = c.key \/ Region(c.data, c.size) \cap Region(c.key, c.size) = {}

\* test::<S>(data, manual_data, key, d, k) and test_xor_chunks_for_type::<T>():
\* any buffer contents, any two offsets and any size that meet the
\* preconditions, on the intrinsic of the build or on the volatile loop
InitMask ==
    /\ arch \in {"x86_64", "aarch64"}
    /\ prog = "mask"
    /\ cell = NoCell
    /\ option = NoOption
    /\ taken = NoOption
    /\ newbox = NoCell
    /\ frame = Idle
    /\ allocated = {}
    /\ mem = [a \in Addr |-> Zero]
    /\ last = [a \in Addr |-> Zero]
    /\ val = [a \in Addr |-> "uninit"]
    /\ drops = [a \in Addr |-> 0]
    /\ hist = [a \in Addr |-> Fresh]
    /\ getrandom = 0
    /\ ret = NoReturn
    /\ twin = NoCell
    /\ goal = NoGoal
    /\ zst = NoZst /\ run = NoRun
    /\ ram \in [RamAddr -> Byte]
    /\ ram0 = ram
    /\ call \in {c \in [loop : {arch, "volatile"}, data : RamAddr, key : RamAddr,
                         size : 0 .. RamLen, n : {0}, index : {0}] :
                    InBuffers(c) /\ SameOrDisjoint(c)}

\* the test calls the primitive (again) on the same pointers
XorChunksCall ==
    /\ prog = "mask" /\ call.n < MaxCalls
    /\ LET r == xor_loop(call.loop, ram, call.data, call.key, call.size)
       IN /\ ram' = r.m
          /\ call' = [call EXCEPT !.n = @ + 1, !.index = r.index]
    /\ UNCHANGED <<arch, client, ram0, twin, goal, zst, run>>

MaskNext == XorChunksCall

SpecMask == InitMask /\ [][MaskNext]_vars

\* ------------------------------------------- the two cells side by side
\* let mut a = MangledBoxArbitrary::<T>::new(); let mut b = MangledBox::<T>::new()
\* with a random source that gives both the same bytes
PairNew(k) ==
    /\ prog = "pair" /\ frame = Idle /\ cell.st # "live"
    /\ allocated = {}
    /\ allocated' = {1, 2}
    /\ cell' = [st |-> "live", kind |-> "arbitrary", ptr |-> 1, key |-> new(k).key]
    /\ twin' = [st |-> "live", kind |-> "plain", ptr |-> 2, key |-> new(k).key]
    /\ mem' = [mem EXCEPT ![1] = new(k).data, ![2] = new(k).data]
    /\ last' = [x \in Addr |-> Zero]
    /\ val' = [x \in Addr |-> "uninit"]
    /\ getrandom' = 1 /\ ret' = NoReturn
    /\ UNCHANGED <<arch, prog, option, taken, newbox, frame, drops, hist,
                   ram, ram0, call, goal, zst, run>>

\* a.rekey(); b.rekey()
PairRekey(diff_key) ==
    /\ prog = "pair" /\ frame = Idle /\ cell.st = "live"
    /\ LET a == rekey(cell.kind, BoxOf(cell), diff_key)
           b == rekey(twin.kind, BoxOf(twin), diff_key)
       IN /\ mem' = [mem EXCEPT ![cell.ptr] = a.data, ![twin.ptr] = b.data]
          /\ cell' = [cell EXCEPT !.key = a.key]
          /\ twin' = [twin EXCEPT !.key = b.key]
    /\ getrandom' = 1 /\ ret' = NoReturn
    /\ UNCHANGED <<arch, prog, option, taken, newbox, frame, allocated, last, val,
                   drops, hist, ram, ram0, call, goal, zst, run>>

\* a.with_unmangled(f) and b.with_unmangled(f), both up to the call of f
PairEnter ==
    /\ prog = "pair" /\ frame = Idle /\ cell.st = "live"
    /\ mem' = [mem EXCEPT ![cell.ptr] = unmangle(cell.kind, BoxOf(cell)).data,
                          ![twin.ptr] = unmangle(twin.kind, BoxOf(twin)).data]
    /\ frame' = [op |-> "with_unmangled", who |-> "pair"]
    /\ getrandom' = 0 /\ ret' = NoReturn
    /\ UNCHANGED <<arch, prog, cell, option, taken, newbox, allocated, last, val,
                   drops, hist, bench>>

\* the same f runs in both, returns or panicks in both, and the guards are
\* dropped
PairExit(c, panicked) ==
    /\ frame = [op |-> "with_unmangled", who |-> "pair"]
    /\ LET a == with_unmangled_exit(cell.kind, [data |-> Left(c, mem[cell.ptr]),
                                                 key |-> cell.key], panicked)
           b == with_unmangled_exit(twin.kind, [data |-> Left(c, mem[twin.ptr]),
                                                 key |-> twin.key], panicked)
       IN mem' = [mem EXCEPT ![cell.ptr] = a.data, ![twin.ptr] = b.data]
    /\ last' = [x \in Addr |-> IF c.do = "write" /\ x \in {cell.ptr, twin.ptr}
                                THEN c.img ELSE last[x]]
    /\ val' = [x \in Addr |-> IF c.do = "write" /\ x \in {cell.ptr, twin.ptr}
                               THEN "init" ELSE val[x]]
    /\ frame' = Idle
    /\ getrandom' = 0 /\ ret' = NoReturn
    /\ UNCHANGED <<arch, prog, cell, option, taken, newbox, allocated,
                   drops, hist, bench>>

\* both go out of scope
PairDrop ==
    /\ prog = "pair" /\ frame = Idle /\ cell.st = "live"
    /\ LET a == box_drop(cell.kind, BoxOf(cell))
           b == box_drop(twin.kind, BoxOf(twin))
       IN /\ mem' = [mem EXCEPT ![cell.ptr] = a.data, ![twin.ptr] = b.data]
          /\ cell' = [cell EXCEPT !.st = "dropped", !.key = a.key]
          /\ twin' = [twin EXCEPT !.st = "dropped", !.key = b.key]
    /\ allocated' = {}
    /\ getrandom' = 0 /\ ret' = NoReturn
    /\ UNCHANGED <<arch, prog, option, taken, newbox, frame, last, val, drops, hist,
                   ram, ram0, call, goal, zst, run>>

InitPair ==
    /\ arch \in {"x86_64", "aarch64"}
    /\ prog = "pair"
    /\ cell = NoCell
    /\ option = NoOption
    /\ taken = NoOption
    /\ newbox = NoCell
    /\ frame = Idle
    /\ allocated = {}
    /\ mem = [a \in Addr |-> Zero]
    /\ last = [a \in Addr |-> Zero]
    /\ val = [a \in Addr |-> "uninit"]
    /\ drops = [a \in Addr |-> 0]
    /\ hist = [a \in Addr |-> Fresh]
    /\ getrandom = 0
    /\ ret = NoReturn
    /\ NoBench

\* the random source returns any bytes for the key
PairNext ==
    \/ \E k \in Image : PairNew(k)
    \/ \E d \in RandomOutputs : PairRekey(d)
    \/ PairEnter
    \/ \E c \in Closures, p \in BOOLEAN : PairExit(c, p)
    \/ PairDrop

SpecPair == InitPair /\ [][PairNext]_vars

\* ------------------------------------------------- the masked images
\* A test that aims at storing plaintext goal.p as the masked image goal.m:
\* the cell is created with any key, the value is written by a scoped access,
\* and a rekey draws the difference that takes the key to goal.p XOR goal.m.
InitSecrecy ==
    /\ arch \in {"x86_64", "aarch64"}
    /\ prog = "box"
    /\ cell = NoCell
    /\ option = NoOption
    /\ taken = NoOption
    /\ newbox = NoCell
    /\ frame = Idle
    /\ allocated = {}
    /\ mem = [a \in Addr |-> Zero]
    /\ last = [a \in Addr |-> Zero]
    /\ val = [a \in Addr |-> "uninit"]
    /\ drops = [a \in Addr |-> 0]
    /\ hist = [a \in Addr |-> Fresh]
    /\ getrandom = 0
    /\ ret = NoReturn
    /\ ram = ZeroRam /\ ram0 = ZeroRam /\ call = NoCall
    /\ twin = NoCell /\ zst = NoZst /\ run = NoRun
    /\ goal \in [p : Writable, m : Image]

\* the difference key that takes the key of the cell to goal.p XOR goal.m
Steer == XorImage(cell.key, XorImage(goal.p, goal.m))

SecrecyNew == \E a \in Addr, k \in RandomOutputs : BoxNew("arbitrary", a, k)
SecrecyRekey == BoxRekey(Steer)
SecrecyExit == \E panicked \in BOOLEAN : BoxExit([do |-> "write", img |-> goal.p], panicked)

SecrecyNext ==
    \/ SecrecyNew
    \/ SecrecyRekey
    \/ BoxEnter
    \/ SecrecyExit

\* the test is a program that makes each of its calls
SpecSecrecy ==
    /\ InitSecrecy /\ [][SecrecyNext]_vars
    /\ WF_vars(SecrecyNew) /\ WF_vars(BoxEnter) /\ WF_vars(SecrecyExit)
    /\ SF_vars(SecrecyRekey)

\* ------------------------------------------------- the random source
Event(ev, data, key, ok) == [ev |-> ev, data |-> data, key |-> key, ok |-> ok]

\* What getrandom::fill_uninit(buf) gives: Ok with buf filled, or Err with
\* buf holding whatever was written to it before the failure
Entropy == [ok : BOOLEAN, bytes : RandomOutputs]

\* mutant of expect: the Result is discarded
expect_unchecked(r) == "Ok"

\* Result::expect("no keygen"): panics on Err
expect(r) == IF r.ok THEN "Ok" ELSE "panic"

\* the calls of getrandom that an operation made, as the log of a test that
\* follows the random source
Drew(op, kind, r) ==
    [NoRun EXCEPT !.op = op, !.kind = kind, !.log = <<Event("getrandom", 0, 0, r.ok)>>]

\* new() with a random source that may fail: Box::new_zeroed(), then
\* fill_uninit(key).expect(); a panic unwinds through new() and frees the Box
EntropyNew(kind, a, r) ==
    /\ prog = "entropy" /\ frame = Idle /\ cell.st # "live"
    /\ a \notin allocated /\ \A b \in Addr : b < a => b \in allocated
    /\ IF expect(r) = "panic"
       THEN /\ mem' = [mem EXCEPT ![a] = Zero]
            /\ UNCHANGED <<cell, allocated, last, val, drops, hist>>
       ELSE /\ allocated' = allocated \cup {a}
            /\ LET b == new(r.bytes)
               IN /\ cell' = [st |-> "live", kind |-> kind, ptr |-> a, key |-> b.key]
                  /\ mem' = [mem EXCEPT ![a] = b.data]
            /\ last' = [last EXCEPT ![a] = Zero]
            /\ val' = [val EXCEPT ![a] = "uninit"]
            /\ drops' = [drops EXCEPT ![a] = 0]
            /\ hist' = [hist EXCEPT ![a] = Fresh]
    /\ run' = Drew("new", kind, r)
    /\ getrandom' = 1 /\ ret' = NoReturn
    /\ UNCHANGED <<arch, prog, option, taken, newbox, frame, ram, ram0, call, twin,
                   goal, zst>>

\* rekey() with a random source that may fail: fill_uninit(diff_key).expect(),
\* then the two calls of xor_chunks
EntropyRekey(r) ==
    /\ prog = "entropy" /\ frame = Idle /\ cell.st = "live"
    /\ IF expect(r) = "panic"
       THEN UNCHANGED <<cell, mem, hist>>
       ELSE /\ LET b == rekey(cell.kind, BoxOf(cell), r.bytes)
               IN /\ mem' = [mem EXCEPT ![cell.ptr] = b.data]
                  /\ cell' = [cell EXCEPT !.key = b.key]
            /\ hist' = [hist EXCEPT ![cell.ptr].rekeyed = TRUE]
    /\ run' = Drew("rekey", cell.kind, r)
    /\ getrandom' = 1 /\ ret' = NoReturn
    /\ UNCHANGED <<arch, prog, option, taken, newbox, frame, allocated, last, val,
                   drops, ram, ram0, call, twin, goal, zst>>

InitEntropy ==
    /\ arch \in {"x86_64", "aarch64"}
    /\ prog = "entropy"
    /\ cell = NoCell
    /\ option = NoOption
    /\ taken = NoOption
    /\ newbox = NoCell
    /\ frame = Idle
    /\ allocated = {}
    /\ mem = [a \in Addr |-> Zero]
    /\ last = [a \in Addr |-> Zero]
    /\ val = [a \in Addr |-> "uninit"]
    /\ drops = [a \in Addr |-> 0]
    /\ hist = [a \in Addr |-> Fresh]
    /\ getrandom = 0
    /\ ret = NoReturn
    /\ NoBench

EntropyNext ==
    \/ \E kind \in Kinds, a \in Addr, r \in Entropy : EntropyNew(kind, a, r)
    \/ \E r \in Entropy : EntropyRekey(r)
    \/ BoxEnter
    \/ \E c \in Closures, p \in BOOLEAN : BoxExit(c, p)
    \/ BoxDrop

SpecEntropy == InitEntropy /\ [][EntropyNext]_vars

\* ------------------------------------- the operations as calls they make
\* Pointers are addresses below PtrLen.  T is [size, align]; the Box, the key
\* field and the local diff_key are objects of type MaybeUninit<T>, each at an
\* aligned, non-null address and apart from the others.
PtrLen == 4 * SizeOfT
Ptr == 1 .. (PtrLen - 1)
Types == {t \in [size : 0 .. SizeOfT, align : {1, 2}] : t.size % t.align = 0}

\* where an object of type t can be
Places(t) == {x \in Ptr : x % t.align = 0 /\ x + t.size <= PtrLen}
Apart(x, y, t) == Region(x, t.size) \cap Region(y, t.size) = {}

\* mutant of xor_chunks_calls: the fence is left out
xor_chunks_calls_unfenced(data, key) == <<Event("xor", data, key, TRUE)>>

\* xor_chunks::<T>(data, key): the loop, then fence(Ordering::SeqCst)
xor_chunks_calls(data, key) ==
    <<Event("xor", data, key, TRUE), Event("fence", 0, 0, TRUE)>>

\* new(): Box::new_zeroed(), getrandom::fill_uninit(key)
new_calls(r) == <<Event("alloc", r.data, 0, TRUE), Event("getrandom", r.key, 0, TRUE)>>

\* rekey(): fill_uninit(diff_key), xor_chunks(data, diff_key),
\* xor_chunks(key, diff_key)
rekey_calls(r) ==
    <<Event("getrandom", r.diff_key, 0, TRUE)>>
    \o xor_chunks_calls(r.data, r.diff_key)
    \o xor_chunks_calls(r.key, r.diff_key)

\* mutant of with_unmangled_calls: the guard is given the pointer past the
\* first byte
with_unmangled_calls_offset(r) ==
    xor_chunks_calls(r.data, r.key)
    \o <<Event("f", r.data, 0, TRUE)>>
    \o xor_chunks_calls(r.data + 1, r.key)

\* with_unmangled(f): xor_chunks(data_ptr, key_ptr), f(data_nn), and
\* RemangleGuard::drop: xor_chunks(self.data, self.key)
with_unmangled_calls(r) ==
    xor_chunks_calls(r.data, r.key)
    \o <<Event("f", r.data, 0, TRUE)>>
    \o xor_chunks_calls(r.data, r.key)

\* Drop: xor_chunks(data_ptr, data_ptr), xor_chunks(key_ptr, key_ptr); then
\* the Box is freed
drop_calls(r) ==
    xor_chunks_calls(r.data, r.data)
    \o xor_chunks_calls(r.key, r.key)
    \o <<Event("free", r.data, 0, TRUE)>>

\* drop_in_place() is with_unmangled(|p| p.drop_in_place())
Ops == {"rekey", "with_unmangled", "drop_in_place", "drop"}

Program(r) ==
    IF r.op = "new" THEN new_calls(r)
    ELSE IF r.op = "rekey" THEN rekey_calls(r)
    ELSE IF r.op \in {"with_unmangled", "drop_in_place"} THEN with_unmangled_calls(r)
    ELSE IF r.op = "drop" THEN drop_calls(r)
    ELSE <<>>

\* the operation panicked in expect("no keygen")
Aborted(r) == \E i \in DOMAIN r.log : r.log[i].ev = "getrandom" /\ ~r.log[i].ok

\* the operation is over
Done(r) == r.pc = Len(Program(r)) \/ Aborted(r)

\* a cell exists between the operations
AtRest(r) ==
    /\ Done(r)
    /\ r.op \notin {"none", "drop"}
    /\ ~(r.op = "new" /\ Aborted(r))

\* let cell = MangledBoxArbitrary::<T>::new() or MangledBox::<T>::new()
CallsNew(kind, t, data, key) ==
    /\ prog = "calls" /\ run.op = "none"
    /\ data \in Places(t) /\ key \in Places(t) /\ Apart(data, key, t)
    /\ run' = [NoRun EXCEPT !.op = "new", !.kind = kind, !.size = t.size,
                            !.align = t.align, !.data = data, !.key = key]
    /\ getrandom' = 0
    /\ UNCHANGED <<arch, prog, cell, option, taken, newbox, frame, allocated, mem,
                   last, val, drops, hist, ret, ram, ram0, call, twin, goal, zst>>

\* the client calls an operation of the cell; diff_key is a local of rekey
CallsStart(op, diff_key) ==
    /\ prog = "calls" /\ AtRest(run)
    /\ op = "drop_in_place" => run.kind = "arbitrary"
    /\ LET t == [size |-> run.size, align |-> run.align]
       IN IF op = "rekey"
          THEN /\ diff_key \in Places(t)
               /\ Apart(diff_key, run.data, t) /\ Apart(diff_key, run.key, t)
          ELSE diff_key = 0
    /\ run' = [run EXCEPT !.op = op, !.diff_key = diff_key, !.pc = 0, !.log = <<>>]
    /\ getrandom' = 0
    /\ UNCHANGED <<arch, prog, cell, option, taken, newbox, frame, allocated, mem,
                   last, val, drops, hist, ret, ram, ram0, call, twin, goal, zst>>

\* the operation makes its next call; the random source succeeds or fails,
\* f returns or panics
CallsStep(ok) ==
    /\ prog = "calls" /\ ~Done(run)
    /\ LET e == Program(run)[run.pc + 1]
       IN /\ ok \/ e.ev \in {"getrandom", "f"}
          /\ run' = [run EXCEPT !.pc = @ + 1, !.log = Append(@, [e EXCEPT !.ok = ok])]
          /\ getrandom' = IF e.ev = "getrandom" THEN 1 ELSE 0
    /\ UNCHANGED <<arch, prog, cell, option, taken, newbox, frame, allocated, mem,
                   last, val, drops, hist, ret, ram, ram0, call, twin, goal, zst>>

InitCalls ==
    /\ arch \in {"x86_64", "aarch64"}
    /\ prog = "calls"
    /\ cell = NoCell
    /\ option = NoOption
    /\ taken = NoOption
    /\ newbox = NoCell
    /\ frame = Idle
    /\ allocated = {}
    /\ mem = [a \in Addr |-> Zero]
    /\ last = [a \in Addr |-> Zero]
    /\ val = [a \in Addr |-> "uninit"]
    /\ drops = [a \in Addr |-> 0]
    /\ hist = [a \in Addr |-> Fresh]
    /\ getrandom = 0
    /\ ret = NoReturn
    /\ NoBench

CallsNext ==
    \/ \E kind \in Kinds, t \in Types, data \in Ptr, key \in Ptr : CallsNew(kind, t, data, key)
    \/ \E op \in Ops, diff_key \in 0 .. (PtrLen - 1) : CallsStart(op, diff_key)
    \/ \E ok \in BOOLEAN : CallsStep(ok)

SpecCalls == InitCalls /\ [][CallsNext]_vars

\* --------------------------------------------------- inserting a value
\* insert_by_ptr(f) in the steps it is made of, after InsertEnter.
\* new_content_box.with_unmangled(f): f runs on the region of the new cell,
\* and returns after writing the value or panics
InsertCall(c, panicked) ==
    /\ frame = [op |-> "insert_by_ptr", who |-> "new"]
    /\ panicked \/ c.do = "write"
    /\ LET a == newbox.ptr
           done == c.do = "write" /\ ~panicked
       IN /\ mem' = [mem EXCEPT ![a] = Left(c, mem[a])]
          /\ val' = [val EXCEPT ![a] = IF done THEN "init" ELSE @]
          /\ last' = [last EXCEPT ![a] = IF done THEN c.img ELSE @]
          /\ hist' = [hist EXCEPT ![a].panicked = panicked]
    /\ frame' = [op |-> "RemangleGuard", who |-> "new"]
    /\ getrandom' = 0 /\ ret' = NoReturn
    /\ UNCHANGED bench
    /\ UNCHANGED <<arch, prog, cell, option, taken, newbox, allocated, drops>>

\* the frame of with_unmangled is left: the guard remasks the new cell.  If f
\* panicked the unwinding goes on through insert_by_ptr and drops
\* new_content_box; self is not touched.
InsertRemask ==
    /\ frame = [op |-> "RemangleGuard", who |-> "new"]
    /\ LET a == newbox.ptr
           panicked == hist[a].panicked
           b == with_unmangled_exit("arbitrary", BoxOf(newbox), panicked)
           h1 == [Heap EXCEPT !.mem[a] = b.data]
       IN IF panicked
          THEN /\ SetHeap(box_teardown(newbox, h1))
               /\ Forget({a})
               /\ newbox' = NoCell
               /\ frame' = Idle
          ELSE /\ SetHeap(h1)
               /\ frame' = [op |-> "assign", who |-> "new"]
               /\ UNCHANGED <<newbox, last, hist>>
    /\ getrandom' = 0 /\ ret' = NoReturn
    /\ UNCHANGED bench
    /\ UNCHANGED <<arch, prog, cell, option, taken>>

\* *self = Self::Some(new_content_box): the old value of self is dropped and
\* the new one is moved in
InsertAssign ==
    /\ frame = [op |-> "assign", who |-> "new"]
    /\ SetHeap(drop_glue(option, Heap))
    /\ option' = SomeValue(newbox)
    /\ last' = [x \in Addr |-> IF x \in Held(option) THEN Zero ELSE last[x]]
    /\ hist' = [x \in Addr |-> IF x \in Held(option) THEN Fresh ELSE hist[x]]
    /\ newbox' = NoCell
    /\ frame' = Idle
    /\ getrandom' = 0 /\ ret' = NoReturn
    /\ UNCHANGED bench
    /\ UNCHANGED <<arch, prog, cell, taken>>

\* insert_by_ptr(f) when the random source fails: MangledBoxArbitrary::new()
\* panics in expect("no keygen") after Box::new_zeroed(), the Box is freed
\* and f is never called
InsertEnterPanics(a, r) ==
    /\ prog = "insert" /\ frame = Idle /\ option.st = "alive"
    /\ a \notin allocated /\ \A b \in Addr : b < a => b \in allocated
    /\ expect(r) = "panic"
    /\ mem' = [mem EXCEPT ![a] = Zero]
    /\ getrandom' = 1 /\ ret' = NoReturn
    /\ UNCHANGED bench
    /\ UNCHANGED <<arch, prog, cell, option, taken, newbox, frame, allocated, last,
                   val, drops, hist>>

\* tests::test_insert_unmasked_value / tests::test_insert_by_ptr
InitInsert ==
    /\ arch \in {"x86_64", "aarch64"}
    /\ prog = "insert"
    /\ cell = NoCell
    /\ option = NoOption
    /\ taken = NoOption
    /\ newbox = NoCell
    /\ frame = Idle
    /\ allocated = {}
    /\ mem = [a \in Addr |-> Zero]
    /\ last = [a \in Addr |-> Zero]
    /\ val = [a \in Addr |-> "uninit"]
    /\ drops = [a \in Addr |-> 0]
    /\ hist = [a \in Addr |-> Fresh]
    /\ getrandom = 0
    /\ ret = NoReturn
    /\ NoBench

InsertNext ==
    \/ OptionNew
    \/ \E a \in Addr, k \in RandomOutputs : InsertEnter(a, k)
    \/ \E a \in Addr, r \in Entropy : InsertEnterPanics(a, r)
    \/ \E c \in Closures, p \in BOOLEAN : InsertCall(c, p)
    \/ InsertRemask
    \/ InsertAssign
    \/ MapMutEnter("option", "map_mut")
    \/ \E c \in Closures, p \in BOOLEAN : MapMutExit("option", c, p)
    \/ Clear

SpecInsert == InitInsert /\ [][InsertNext]_vars

\* ------------------------------------------------- destroying the value
\* tests::drop_at_correct_time / tests::no_auto_drop: drop_in_place() in the
\* steps it is made of.  The closure of with_unmangled is |p| p.drop_in_place().
\* drop_in_place(), up to the call of the closure
DropInPlaceEnter ==
    /\ prog = "box" /\ frame = Idle /\ cell.st = "live" /\ cell.kind = "arbitrary"
    /\ val[cell.ptr] = "init"
    /\ mem' = [mem EXCEPT ![cell.ptr] = unmangle(cell.kind, BoxOf(cell)).data]
    /\ frame' = [op |-> "drop_in_place", who |-> "cell"]
    /\ getrandom' = 0 /\ ret' = NoReturn
    /\ UNCHANGED bench
    /\ UNCHANGED <<arch, prog, cell, option, taken, newbox, allocated, last, val,
                   drops, hist>>

\* what the destructor reports: that it ran, and the image it ran on
Reported(img) == [api |-> "drop_in_place", kind |-> "unit", by |-> "drop", img |-> img]

\* p.drop_in_place(): T's destructor runs on the region and returns or panics
DropInPlaceRun(panicked) ==
    /\ frame = [op |-> "drop_in_place", who |-> "cell"]
    /\ drops' = [drops EXCEPT ![cell.ptr] = @ + 1]
    /\ val' = [val EXCEPT ![cell.ptr] = "dropped"]
    /\ hist' = [hist EXCEPT ![cell.ptr].panicked = panicked]
    /\ ret' = Reported(mem[cell.ptr])
    /\ frame' = [op |-> "RemangleGuard", who |-> "cell"]
    /\ getrandom' = 0
    /\ UNCHANGED bench
    /\ UNCHANGED <<arch, prog, cell, option, taken, newbox, allocated, mem, last>>

\* the frame of with_unmangled is left, by return or by unwinding: the guard
\* is dropped
DropInPlaceExit ==
    /\ frame = [op |-> "RemangleGuard", who |-> "cell"]
    /\ LET b == with_unmangled_exit(cell.kind, BoxOf(cell), hist[cell.ptr].panicked)
       IN mem' = [mem EXCEPT ![cell.ptr] = b.data]
    /\ frame' = Idle
    /\ getrandom' = 0
    /\ UNCHANGED bench
    /\ UNCHANGED <<arch, prog, cell, option, taken, newbox, allocated, last, val,
                   drops, hist, ret>>

InitDestroy == Init /\ prog = "box"

DestroyNext ==
    \/ \E a \in Addr, k \in RandomOutputs : BoxNew("arbitrary", a, k)
    \/ \E d \in RandomOutputs : BoxRekey(d)
    \/ BoxEnter
    \/ \E c \in Closures, p \in BOOLEAN : BoxExit(c, p)
    \/ DropInPlaceEnter
    \/ \E panicked \in BOOLEAN : DropInPlaceRun(panicked)
    \/ DropInPlaceExit
    \/ BoxDrop

SpecDestroy == InitDestroy /\ [][DestroyNext]_vars

\* ------------------------------------------ cells over zero-sized types
\* size_of::<()>() and size_of::<Align64>()
size_of_zst == 0

\* align_of::<T>() of the zero-sized types of the tests, scaled to the memory
Aligns == {1, 2}

Aligned(align) == {a \in RamAddr : a % align = 0}

\* the loop that xor_chunks of a kind of cell runs
LoopOf(kind) == IF kind = "plain" THEN "volatile" ELSE arch

\* tests::zst / tests::overaligned_zst, before new(): any bytes around
InitZst ==
    /\ arch \in {"x86_64", "aarch64"}
    /\ prog = "zst"
    /\ cell = NoCell
    /\ option = NoOption
    /\ taken = NoOption
    /\ newbox = NoCell
    /\ frame = Idle
    /\ allocated = {}
    /\ mem = [a \in Addr |-> Zero]
    /\ last = [a \in Addr |-> Zero]
    /\ val = [a \in Addr |-> "uninit"]
    /\ drops = [a \in Addr |-> 0]
    /\ hist = [a \in Addr |-> Fresh]
    /\ getrandom = 0
    /\ ret = NoReturn
    /\ twin = NoCell /\ goal = NoGoal /\ zst = NoZst /\ run = NoRun
    /\ ram \in {[a \in RamAddr |-> b] : b \in Byte}
    /\ ram0 = ram
    /\ call = NoCall

\* new(): Box::new_zeroed() of a zero-sized type allocates nothing and is any
\* non-null pointer aligned for T; the key field is aligned for T and
\* getrandom fills its zero bytes
ZstNew(kind, align, data, key) ==
    /\ prog = "zst" /\ zst.st = "none"
    /\ data \in Aligned(align) \ {0}
    /\ key \in Aligned(align)
    /\ zst' = [st |-> "live", kind |-> kind, align |-> align, data |-> data, key |-> key,
               handed |-> 0, used |-> FALSE]
    /\ getrandom' = 1
    /\ UNCHANGED <<arch, prog, cell, option, taken, newbox, frame, allocated, mem,
                   last, val, drops, hist, ret, ram, ram0, call, twin, goal, run>>

\* rekey(): diff_key is a local, aligned for T; xor_chunks(data, diff_key);
\* xor_chunks(key, diff_key)
ZstRekey(diff_key) ==
    /\ prog = "zst" /\ zst.st = "live"
    /\ diff_key \in Aligned(zst.align)
    /\ LET r1 == xor_loop(LoopOf(zst.kind), ram, zst.data, diff_key, size_of_zst)
           r2 == xor_loop(LoopOf(zst.kind), r1.m, zst.key, diff_key, size_of_zst)
       IN /\ ram' = r2.m
          /\ call' = [loop |-> LoopOf(zst.kind), data |-> zst.key, key |-> diff_key,
                      size |-> size_of_zst, n |-> 1, index |-> r1.index + r2.index]
    /\ getrandom' = 1
    /\ UNCHANGED <<arch, prog, cell, option, taken, newbox, frame, allocated, mem,
                   last, val, drops, hist, ret, ram0, twin, goal, zst, run>>

\* with_unmangled(), up to the call of f: NonNull::new(data_ptr).unwrap(),
\* xor_chunks(data_ptr, key_ptr), f(data_nn.cast())
ZstEnter ==
    /\ prog = "zst" /\ zst.st = "live"
    /\ zst.data # 0
    /\ LET r == xor_loop(LoopOf(zst.kind), ram, zst.data, zst.key, size_of_zst)
       IN /\ ram' = r.m
          /\ call' = [loop |-> LoopOf(zst.kind), data |-> zst.data, key |-> zst.key,
                      size |-> size_of_zst, n |-> 1, index |-> r.index]
    /\ zst' = [zst EXCEPT !.st = "entered", !.handed = zst.data]
    /\ getrandom' = 0
    /\ UNCHANGED <<arch, prog, cell, option, taken, newbox, frame, allocated, mem,
                   last, val, drops, hist, ret, ram0, twin, goal, run>>

\* f returns or panics: RemangleGuard::drop
ZstExit(panicked) ==
    /\ prog = "zst" /\ zst.st = "entered"
    /\ LET r == xor_loop(LoopOf(zst.kind), ram, zst.data, zst.key, size_of_zst)
       IN /\ ram' = r.m
          /\ call' = [loop |-> LoopOf(zst.kind), data |-> zst.data, key |-> zst.key,
                      size |-> size_of_zst, n |-> 1, index |-> r.index]
    /\ zst' = [zst EXCEPT !.st = "live", !.handed = 0, !.used = TRUE]
    /\ getrandom' = 0
    /\ UNCHANGED <<arch, prog, cell, option, taken, newbox, frame, allocated, mem,
                   last, val, drops, hist, ret, ram0, twin, goal, run>>

\* Drop: xor_chunks(data_ptr, data_ptr); xor_chunks(key_ptr, key_ptr); the
\* Box of a zero-sized type frees nothing
ZstDrop ==
    /\ prog = "zst" /\ zst.st = "live"
    /\ LET r1 == xor_loop(LoopOf(zst.kind), ram, zst.data, zst.data, size_of_zst)
           r2 == xor_loop(LoopOf(zst.kind), r1.m, zst.key, zst.key, size_of_zst)
       IN /\ ram' = r2.m
          /\ call' = [loop |-> LoopOf(zst.kind), data |-> zst.key, key |-> zst.key,
                      size |-> size_of_zst, n |-> 1, index |-> r1.index + r2.index]
    /\ zst' = [zst EXCEPT !.st = "dropped"]
    /\ getrandom' = 0
    /\ UNCHANGED <<arch, prog, cell, option, taken, newbox, frame, allocated, mem,
                   last, val, drops, hist, ret, ram0, twin, goal, run>>

ZstNext ==
    \/ \E kind \in Kinds, align \in Aligns, data \in RamAddr, key \in RamAddr :
          ZstNew(kind, align, data, key)
    \/ \E diff_key \in RamAddr : ZstRekey(diff_key)
    \/ ZstEnter
    \/ \E panicked \in BOOLEAN : ZstExit(panicked)
    \/ ZstDrop

SpecZst == InitZst /\ [][ZstNext]_vars

\* The observer: one optional, map_mut and map_mut_or_else, and the returns
\* of both kept.
InitObserver ==
    /\ arch \in {"x86_64", "aarch64"}
    /\ prog = "observer"
    /\ cell = NoCell
    /\ option = NoOption
    /\ taken = NoOption
    /\ newbox = NoCell
    /\ frame = Idle
    /\ allocated = {}
    /\ mem = [a \in Addr |-> Zero]
    /\ last = [a \in Addr |-> Zero]
    /\ val = [a \in Addr |-> "uninit"]
    /\ drops = [a \in Addr |-> 0]
    /\ hist = [a \in Addr |-> Fresh]
    /\ getrandom = 0
    /\ ret = NoReturn
    /\ NoBench

ObserverNext ==
    \/ OptionNew
    \/ \E a \in Addr, k \in RandomOutputs : InsertEnter(a, k)
    \/ \E c \in Closures, p \in BOOLEAN : InsertExit(c, p)
    \/ \E api \in MapApis : MapMutEnter("option", api)
    \/ \E c \in Closures, p \in BOOLEAN : MapMutExit("option", c, p)
    \/ \E api \in MapApis : MapMutNone("option", api)
    \/ \E d \in RandomOutputs : OptionRekey("option", d)
    \/ OptionRekeyNone("option")
    \/ Query("option")
    \/ \E x \in RawXors : RawXor("option", x)
    \/ Clear
    \/ OptionTeardown("option")

SpecObserver == InitObserver /\ [][ObserverNext]_vars


\* ----------------------------------------------------------- properties
\* the cells that exist, each with the name of the variable that owns it
Cells ==
    (IF cell.st = "live"
     THEN {[who |-> "cell", ptr |-> cell.ptr, key |-> cell.key]} ELSE {})
    \cup {[who |-> o, ptr |-> Opt(o).ptr, key |-> Opt(o).key] :
            o \in {x \in Owners : Opt(x).st = "alive" /\ Opt(x).tag = "Some"}}

\* c is inside a scoped access, at the point where the closure is handed the
\* region
Entered(c) == frame.who = c.who

\* the image a scoped access on the optional o would hand to its closure
Reveals(o) == unmangle("arbitrary", BoxOf(o)).data

\* C1: once a closure has written image p into a cell, every later scoped
\* access that follows a rekey (and any number of read-only accesses) is
\* handed exactly p.
RekeyPreservesPlaintext ==
    \A c \in Cells :
        (Entered(c) /\ val[c.ptr] # "uninit" /\ hist[c.ptr].rekeyed)
            => mem[c.ptr] = last[c.ptr]

RekeyPreservesPlaintext_witness ==
    /\ frame = [op |-> "map_mut", who |-> "option"]
    /\ hist[option.ptr].rekeyed
    /\ option.key # Zero
    /\ mem[option.ptr] = Unit

\* C2: after a closure has panicked the cell is masked with its key as after
\* a return, and the next scoped access is handed the image the closure had
\* left.
PanicSafety ==
    \A c \in Cells :
        (val[c.ptr] # "uninit" /\ hist[c.ptr].panicked)
            => IF Entered(c) THEN mem[c.ptr] = last[c.ptr]
               ELSE mem[c.ptr] = XorImage(last[c.ptr], c.key)

PanicSafety_witness ==
    /\ frame = [op |-> "with_unmangled", who |-> "cell"]
    /\ hist[cell.ptr].panicked
    /\ cell.key = Ones
    /\ mem[cell.ptr] = Unit

\* C3 as stated: at rest the data region holds (image last left) XOR key and
\* not that image; the image is in the region only inside a scoped access.
MaskedAtRest_stated ==
    \A c \in Cells :
        val[c.ptr] # "uninit" =>
            IF Entered(c) THEN mem[c.ptr] = last[c.ptr]
            ELSE /\ mem[c.ptr] = XorImage(last[c.ptr], c.key)
                 /\ mem[c.ptr] # last[c.ptr]

\* C3 as amended: at rest the data region holds (image last left) XOR key,
\* which is not that image unless the key is all-zero; inside a scoped access
\* the region holds the image last left.
MaskedAtRest ==
    \A c \in Cells :
        val[c.ptr] # "uninit" =>
            IF Entered(c) THEN mem[c.ptr] = last[c.ptr]
            ELSE /\ mem[c.ptr] = XorImage(last[c.ptr], c.key)
                 /\ (c.key # Zero => mem[c.ptr] # last[c.ptr])

MaskedAtRest_witness ==
    /\ frame = Idle /\ cell.st = "live"
    /\ val[cell.ptr] = "dropped"
    /\ hist[cell.ptr].rekeyed
    /\ cell.key = Ones
    /\ last[cell.ptr] = Unit

HeldBy(os) == UNION {Held(Opt(o)) : o \in {x \in os : Opt(x).st = "alive"}}

\* the addresses at which an insert has put a value
Inserted == {a \in Addr : prog = "option" /\ val[a] # "uninit"}

\* C5 as stated: the destructor of an inserted value has not run while the
\* optional it was inserted into is Present with it, and has run exactly once
\* from then on (after Clear, Take, replacement, teardown).
DestructorOnce_stated ==
    \A a \in Inserted :
        IF a \in HeldBy({"option"}) THEN drops[a] = 0 ELSE drops[a] = 1

\* C5 as amended: the destructor of an inserted value has not run while an
\* optional is Present with it (the one it was inserted into, or the one
\* Take returned), and has run exactly once from then on; it never runs
\* where no value was put.
DestructorOnce ==
    /\ \A a \in Inserted :
        IF a \in HeldBy(Owners) THEN drops[a] = 0 ELSE drops[a] = 1
    /\ \A a \in Addr : prog = "option" /\ val[a] = "uninit" => drops[a] = 0

DestructorOnce_witness ==
    /\ option.st = "dropped" /\ taken.st = "dropped"
    /\ \A a \in Addr : drops[a] = 1

\* o stops being Present with the value at its address
Vacates(o) ==
    /\ Opt(o).st = "alive" /\ Opt(o).tag = "Some"
    /\ ~(Opt(o).st' = "alive" /\ Opt(o).tag' = "Some" /\ Opt(o).ptr' = Opt(o).ptr)

Destroys(a) == drops'[a] = drops[a] + 1 /\ val'[a] = "dropped"

NoStalePresent ==
    \A o \in Owners : Opt(o).st = "alive" /\ Opt(o).tag = "Some" => val[Opt(o).ptr] = "init"

\* C6 as stated: whenever an optional stops being Present (Clear, Take,
\* teardown) the destructor of its value runs in that step, and no Present
\* optional holds a destroyed value.
DestroyThenRetag_stated ==
    [][/\ \A o \in Owners : Vacates(o) => Destroys(Opt(o).ptr)
       /\ NoStalePresent']_vars

\* C6 as amended: whenever an optional stops being Present the destructor of
\* its value runs in that step, except in Take, which runs no destructor and
\* moves the cell to the optional it returns; no Present optional holds a
\* destroyed value.
DestroyThenRetag ==
    [][/\ \A o \in Owners : Vacates(o) =>
            \/ Destroys(Opt(o).ptr)
            \/ /\ o = "option" /\ taken.st # "alive"
               /\ taken' = option /\ option' = NoneValue
               /\ drops' = drops /\ val' = val
       /\ NoStalePresent']_vars

DestroyThenRetag_witness ==
    /\ option.st = "alive" /\ option.tag = "None"
    /\ taken.st = "alive" /\ taken.tag = "Some"
    /\ \E a \in Addr : val[a] = "dropped" /\ a \in allocated

\* C7: Take leaves the optional Absent; from a Present optional it returns a
\* Present optional whose scoped access reveals what the original's would
\* have, and from an Absent one an Absent optional.
TakeMoves ==
    [][(option.st = "alive" /\ taken.st # "alive" /\ taken'.st = "alive") =>
          /\ option' = NoneValue
          /\ taken'.tag = option.tag
          /\ option.tag = "Some" =>
                /\ Reveals(taken)' = Reveals(option)
                /\ Reveals(taken)' = last[option.ptr]]_vars

TakeMoves_witness ==
    /\ frame = [op |-> "map_mut", who |-> "taken"]
    /\ option.st = "alive" /\ option.tag = "None"
    /\ taken.key = Ones
    /\ mem[taken.ptr] = Unit

\* C8: the teardown of a stand-alone cell runs no destructor, leaves the data
\* region and the key region all-zero, and releases the allocation.
TeardownWipes ==
    [][(cell.st = "live" /\ cell'.st = "dropped") =>
          /\ drops' = drops /\ val' = val
          /\ mem'[cell.ptr] = Zero
          /\ cell'.key = Zero
          /\ cell.ptr \notin allocated']_vars

TeardownWipes_witness ==
    /\ cell.st = "dropped" /\ cell.kind = "arbitrary"
    /\ val[cell.ptr] = "init" /\ drops[cell.ptr] = 0
    /\ last[cell.ptr] = Unit /\ hist[cell.ptr].rekeyed

\* C9: once the destructor of an optional's value has run (Clear,
\* replacement, teardown), the cell that held it has been torn down: its data
\* region is all-zero.
DiscardedCellWiped ==
    \A a \in Addr : prog = "option" /\ val[a] = "dropped" => mem[a] = Zero

\* C10: the heap allocations for T are those of the Present optionals (and of
\* the cell an insert in progress is filling).
NoAllocationWhenAbsent ==
    prog = "option" =>
        Cardinality(allocated) =
            Cardinality({o \in Owners : Opt(o).st = "alive" /\ Opt(o).tag = "Some"})
            + (IF newbox.st = "live" THEN 1 ELSE 0)

Present(o) == Opt(o).st = "alive" /\ Opt(o).tag = "Some"
Absent(o) == Opt(o).st = "alive" /\ Opt(o).tag = "None"

\* the step is a rekey of the cell of the Present optional o
Rekeys(o) ==
    /\ Present(o)
    /\ \E d \in RandomOutputs :
          /\ Opt(o)'.key = XorImage(Opt(o).key, d)
          /\ mem'[Opt(o).ptr] = XorImage(mem[Opt(o).ptr], d)

\* C11: an optional starts Absent.  An Absent optional stays Absent in every
\* step but the one that completes an insert into it; heap allocations are
\* made only by a beginning insert, and the random source is called only by a
\* beginning insert and by the rekey of a Present optional.  While every
\* optional is Absent, a step that is not an insert changes no byte of the
\* heap.
AbsentIsInert ==
    [][prog = "option" =>
          /\ (option.st # "alive" /\ option'.st = "alive") => option'.tag = "None"
          /\ \A o \in Owners : Absent(o) =>
                \/ Opt(o)'.tag = "None"
                \/ o = "option" /\ frame.op = "insert_by_ptr"
          /\ ~(allocated' \subseteq allocated) => frame'.op = "insert_by_ptr"
          /\ getrandom' > 0 =>
                \/ frame'.op = "insert_by_ptr"
                \/ \E o \in Owners : Rekeys(o)
          /\ (/\ \A o \in Owners : ~Present(o)
              /\ frame = Idle /\ frame' = Idle) =>
                (mem' = mem /\ allocated' = allocated /\ getrandom' = 0)]_vars

AbsentIsInert_witness ==
    /\ Absent("option") /\ Absent("taken")
    /\ allocated = {} /\ getrandom = 0
    /\ \A a \in Addr : val[a] = "uninit"

\* the reference: byte x of a memory m0 after data[i] ^= key[i] for i in 0..size
Reference(m0, c, x) ==
    IF x \in Region(c.data, c.size)
    THEN XorBits(m0[x], m0[c.key + (x - c.data)], ByteBits)
    ELSE m0[x]

\* After one call on regions that are the same or disjoint, each loop has
\* made exactly size iterations, data[i] is old data[i] XOR old key[i] for
\* every i below size, and every other byte of the buffers (those of a
\* distinct key region among them) is as it was.
LoopComputesXor ==
    (prog = "mask" /\ call.n = 1) =>
        /\ call.index = call.size
        /\ \A x \in RamAddr : ram[x] = Reference(ram0, call, x)

\* C12: each of the three loops (x86_64 assembly, aarch64 assembly, volatile
\* loop) is a loop of a build of the crate and, on regions that are the same
\* or disjoint, ends after exactly size iterations with data[i] = old data[i]
\* XOR old key[i] for every i below size and every other byte unchanged.
MaskComputesXor ==
    /\ \A loop \in Loops : loop = "volatile" \/ Compiles(loop)
    /\ LoopComputesXor

\* C13: after the mask primitive has been applied twice with the same key to
\* a data region disjoint from the key region, every byte of the buffers, the
\* data region's among them, is what it was before the first application.
MaskRoundTrip ==
    (/\ prog = "mask" /\ call.n = 2
     /\ Region(call.data, call.size) \cap Region(call.key, call.size) = {})
        => ram = ram0

MaskRoundTrip_witness ==
    /\ prog = "mask" /\ call.n = 2 /\ call.loop = "x86_64"
    /\ call.size = 2 /\ call.data = 0 /\ call.key = 2
    /\ ram0[0] = 0 /\ ram0[1] = 1 /\ ram0[2] = 1 /\ ram0[3] = 1
    /\ ram = ram0

\* C14: after the mask primitive has been applied with the same pointer for
\* data and key, every byte of the region is zero, whatever it held and
\* whatever its size.
SelfMaskZeroes ==
    (prog = "mask" /\ call.n = 1 /\ call.data = call.key)
        => \A x \in Region(call.data, call.size) : ram[x] = 0

SelfMaskZeroes_witness ==
    /\ prog = "mask" /\ call.n = 1 /\ call.loop = "aarch64"
    /\ call.data = call.key /\ call.data = 1 /\ call.size = RamLen - 1
    /\ \A x \in RamAddr : ram0[x] = 1
    /\ ram[0] = 1 /\ ram[RamLen - 1] = 0

\* C15: map_mut_or_else and map_mut on a Present optional unmask, hand f the
\* live value, remask, and return what f returned (map_mut inside Some)
\* unless f panicked; on an Absent optional they return what default
\* returned (map_mut: None) and change no byte.  The optional stays Present
\* or Absent with the same cell, and f is handed what the previous f left.
MapMutContract ==
    [][prog = "observer" =>
          LET p == option.ptr
              r == ret'
          IN /\ (frame = Idle /\ frame'.op \in MapApis) =>
                   /\ Present("option") /\ option' = option
                   /\ mem'[p] = last[p]
             /\ frame.op \in MapApis =>
                   /\ frame' = Idle /\ Present("option") /\ option' = option
                   /\ mem'[p] = XorImage(last'[p], option.key)
                   /\ \/ r = NoReturn
                      \/ /\ r.api = frame.op /\ r.by = "f"
                         /\ r.kind = (IF frame.op = "map_mut" THEN "Some" ELSE "R")
                         /\ r.img = last'[p]
             /\ (frame = Idle /\ r.api \in MapApis) =>
                   /\ Absent("option") /\ r.by = "default"
                   /\ r.kind = (IF r.api = "map_mut" THEN "None" ELSE "R")
                   /\ UNCHANGED <<option, frame, allocated, mem, last, getrandom>>]_vars

MapMutContract_witness ==
    /\ prog = "observer" /\ frame = Idle /\ Present("option")
    /\ ret = [api |-> "map_mut", kind |-> "Some", by |-> "f", img |-> Unit]
    /\ option.key = Ones /\ hist[option.ptr].rekeyed
    /\ mem[option.ptr] = XorImage(Unit, Ones)

\* C16: as_ptr() of an Absent optional is null; of a Present optional it is
\* the non-null address of the cell's data, which hold the masked value.  When
\* the client XORs m into byte i through it (a step that changes the bytes at
\* rest and not the optional), the next scoped access reveals the former
\* plaintext with m XORed into byte i and every other byte as it was.
RawPointerContract ==
    [][(prog = "observer" /\ option.st = "alive" /\ frame = Idle) =>
          LET p == as_ptr(option)
          IN /\ Absent("option") => p = 0
             /\ Present("option") =>
                   /\ p # 0 /\ p = option.ptr /\ p \in allocated
                   /\ mem[p] = XorImage(last[p], option.key)
                   /\ (frame' = Idle /\ option' = option /\ mem' # mem) =>
                         \E x \in RawXors :
                            /\ mem' = [mem EXCEPT ![p][x.i] = XorBits(@, x.m, ByteBits)]
                            /\ Reveals(option)' =
                                  [Reveals(option) EXCEPT ![x.i] = XorBits(@, x.m, ByteBits)]]_vars

RawPointerContract_witness ==
    /\ prog = "observer" /\ frame.op = "map_mut"
    /\ option.key = Unit /\ hist[option.ptr].rekeyed
    /\ mem[option.ptr] = [Ones EXCEPT ![0] = XorBits(@, 1, ByteBits)]

\* C17: a MangledBoxArbitrary and a MangledBox that were created with the same
\* random bytes and went through the same calls of rekey, with_unmangled
\* (returning or panicking) and drop hold the same bytes in their data and
\* key regions after every step, and hand the same bytes to their closures.
PlainMatchesArbitrary ==
    prog = "pair" =>
        /\ twin.st = cell.st
        /\ cell.st # "none" =>
              /\ twin.key = cell.key
              /\ mem[twin.ptr] = mem[cell.ptr]
        /\ (frame.who = "pair" /\ val[twin.ptr] = "init") =>
              (mem[twin.ptr] = last[twin.ptr] /\ mem[cell.ptr] = last[cell.ptr])

PlainMatchesArbitrary_witness ==
    /\ prog = "pair" /\ frame.who = "pair"
    /\ cell.key = XorImage(Unit, Ones) /\ twin.key = cell.key
    /\ val[twin.ptr] = "init"
    /\ mem[cell.ptr] = Unit /\ mem[twin.ptr] = Unit

\* the cell is at rest with plaintext goal.p in it, goal.m in its data region
\* and the key that unmasks goal.m to goal.p
Stored ==
    /\ frame = Idle /\ cell.st = "live" /\ val[cell.ptr] = "init"
    /\ last[cell.ptr] = goal.p
    /\ mem[cell.ptr] = goal.m
    /\ Mask(cell.kind, mem[cell.ptr], cell.key) = goal.p

\* C18: for every plaintext p and every image m there are outputs of the
\* random source with which the cell, holding p, has m in its data region at
\* rest: the test that aims at (p, m) gets there, whatever p and m.
EveryImageForEveryPlaintext == <>Stored

EveryImageForEveryPlaintext_witness ==
    /\ Stored /\ hist[cell.ptr].rekeyed
    /\ goal.p = Unit /\ goal.m = XorImage(Unit, Ones)
    /\ cell.key = Ones

\* C19: a cell over a zero-sized type is created, rekeyed, accessed and torn
\* down with no iteration of the mask loop and no byte of memory changed, and
\* the pointer that the closure holds is non-null and a multiple of
\* align_of::<T>().
ZstTouchesNothing ==
    /\ ram = ram0
    /\ call.index = 0
    /\ zst.st = "entered" => zst.handed # 0 /\ zst.handed % zst.align = 0

ZstTouchesNothing_witness ==
    /\ zst.st = "dropped" /\ zst.used /\ zst.align = 2 /\ zst.kind = "arbitrary"
    /\ arch = "x86_64" /\ call.n = 1
    /\ \E a \in RamAddr : ram[a] # 0

\* the stand-alone cell holds a value that was written and not destroyed
Live == cell.st = "live" /\ val[cell.ptr] = "init"

\* C20: drop_in_place() on a cell holding a live value unmasks, then runs the
\* destructor once on the plaintext image, then remasks.  Before the call the
\* destructor has not run; when the closure is called the region holds the
\* plaintext and the destructor has not run; when the guard is dropped the
\* destructor has run once, on the plaintext, and the region is still
\* unmasked; after the call, returned or unwound, the destructor has run
\* once and the region holds the image masked with the key.
DestroyInOrder ==
    /\ Live /\ frame.op # "drop_in_place" => drops[cell.ptr] = 0
    /\ frame.op = "drop_in_place" =>
          /\ val[cell.ptr] = "init" /\ drops[cell.ptr] = 0
          /\ mem[cell.ptr] = last[cell.ptr]
    /\ frame.op = "RemangleGuard" =>
          /\ val[cell.ptr] = "dropped" /\ drops[cell.ptr] = 1
          /\ ret = Reported(last[cell.ptr])
          /\ mem[cell.ptr] = last[cell.ptr]
    /\ frame = Idle /\ cell.st = "live" /\ val[cell.ptr] = "dropped" =>
          /\ drops[cell.ptr] = 1
          /\ Mask(cell.kind, mem[cell.ptr], cell.key) = last[cell.ptr]

DestroyInOrder_witness ==
    /\ frame = Idle /\ cell.st = "live" /\ val[cell.ptr] = "dropped"
    /\ hist[cell.ptr].panicked
    /\ ret = Reported(Unit) /\ cell.key = Ones
    /\ mem[cell.ptr] = XorImage(Unit, Ones)

\* the value that the optional holds while insert_by_ptr runs is in place:
\* in its own cell, masked with its key, its destructor not run
OldInPlace ==
    option.tag = "Some" =>
        /\ option.ptr # newbox.ptr /\ option.ptr \in allocated
        /\ val[option.ptr] = "init" /\ drops[option.ptr] = 0
        /\ Mask("arbitrary", mem[option.ptr], option.key) = last[option.ptr]

\* the states of an insert_by_ptr, one after the other
InsertStages ==
    /\ frame.who = "new" => newbox.st = "live" /\ OldInPlace
    /\ frame = [op |-> "insert_by_ptr", who |-> "new"] =>
          /\ val[newbox.ptr] = "uninit"
          /\ mem[newbox.ptr] = Mask("arbitrary", Zero, newbox.key)
    /\ frame = [op |-> "RemangleGuard", who |-> "new"] /\ ~hist[newbox.ptr].panicked =>
          /\ val[newbox.ptr] = "init"
          /\ mem[newbox.ptr] = last[newbox.ptr]
    /\ frame.op = "assign" =>
          /\ val[newbox.ptr] = "init"
          /\ Mask("arbitrary", mem[newbox.ptr], newbox.key) = last[newbox.ptr]
    /\ frame = [op |-> "map_mut", who |-> "option"] =>
          mem[option.ptr] = last[option.ptr]

\* the assignment that ends insert_by_ptr
InsertAssigns ==
    frame.op = "assign" /\ frame' = Idle =>
        /\ option' = SomeValue(newbox)
        /\ val'[newbox.ptr] = "init" /\ drops'[newbox.ptr] = 0
        /\ Mask("arbitrary", mem'[newbox.ptr], newbox.key) = last'[newbox.ptr]
        /\ last'[newbox.ptr] = last[newbox.ptr]
        /\ option.tag = "Some" =>
              val'[option.ptr] = "dropped" /\ drops'[option.ptr] = 1

\* C21: insert_by_ptr(f) creates a new cell, runs f on its unmasked region,
\* remasks it, and only then records Some.  While it runs, a value that the
\* optional already holds stays in its cell, masked and with its destructor
\* not run; the destructor runs once in the step that records Some, when the
\* new value is constructed and masked.  A scoped access then gets the new
\* value.
InsertInOrder == []InsertStages /\ [][InsertAssigns]_vars

InsertInOrder_witness ==
    /\ frame = [op |-> "map_mut", who |-> "option"]
    /\ option.ptr = 2 /\ mem[2] = Ones
    /\ val[1] = "dropped" /\ drops[1] = 1

\* a call of the log failed
Failed(log) == \E i \in DOMAIN log : ~log[i].ok

\* a step of an operation whose call of the random source failed
FailedStep ==
    getrandom' = 1 /\ Failed(run'.log) =>
        /\ cell' = cell /\ allocated' = allocated
        /\ (cell.st = "live" => mem' = mem)

\* a step after which a cell exists that did not exist, or has another key
KeyedStep ==
    cell'.st = "live" /\ (cell.st # "live" \/ cell'.key # cell.key) =>
        getrandom' = 1 /\ run'.log # <<>> /\ ~Failed(run'.log)

\* C22: an operation whose call of the random source fails produces no cell
\* (new) or leaves the cell, its key and every byte of the heap as they were
\* (rekey); a cell comes to exist, or the key of a cell changes, only in an
\* operation whose call of the random source succeeded.
EntropyFailureIsFatal ==
    [][FailedStep /\ KeyedStep]_vars

EntropyFailureIsFatal_witness ==
    /\ run.op = "rekey" /\ Failed(run.log) /\ frame = Idle
    /\ cell.st = "live" /\ cell.key = Ones /\ val[cell.ptr] = "init"
    /\ hist[cell.ptr].rekeyed
    /\ mem[cell.ptr] = XorImage(Unit, Ones)

\* the calls of a log, without their arguments
Evs(log) == [i \in DOMAIN log |-> log[i].ev]

\* the i-th call of the log is the mask primitive on (data, key)
Masks(log, i, data, key) == log[i].ev = "xor" /\ log[i].data = data /\ log[i].key = key

\* C23: every call of the mask primitive that an operation of a cell makes is
\* followed by the fence before the operation makes another call or ends.
\* An operation that ran to its end made these calls: rekey one call of the
\* random source, then mask of data and fence, then mask of key and fence,
\* both masks with the buffer the random source filled; with_unmangled mask,
\* fence, f, mask, fence, both masks of data with key; drop self-mask of
\* data, fence, self-mask of key, fence.
FenceAfterEveryMask ==
    /\ \A i \in DOMAIN run.log :
          run.log[i].ev = "xor" =>
              IF i < Len(run.log) THEN run.log[i + 1].ev = "fence" ELSE ~Done(run)
    /\ Done(run) /\ ~Aborted(run) /\ run.op = "rekey" =>
          /\ Evs(run.log) = <<"getrandom", "xor", "fence", "xor", "fence">>
          /\ Masks(run.log, 2, run.data, run.log[1].data)
          /\ Masks(run.log, 4, run.key, run.log[1].data)
    /\ Done(run) /\ run.op \in {"with_unmangled", "drop_in_place"} =>
          /\ Evs(run.log) = <<"xor", "fence", "f", "xor", "fence">>
          /\ Masks(run.log, 1, run.data, run.key)
          /\ Masks(run.log, 4, run.data, run.key)
    /\ Done(run) /\ run.op = "drop" =>
          /\ Evs(run.log) = <<"xor", "fence", "xor", "fence", "free">>
          /\ Masks(run.log, 1, run.data, run.data)
          /\ Masks(run.log, 3, run.key, run.key)

FenceAfterEveryMask_witness ==
    /\ Done(run) /\ run.op = "rekey" /\ run.kind = "plain" /\ run.size = SizeOfT
    /\ Len(run.log) = 5 /\ arch = "x86_64"

\* the objects of type MaybeUninit<T> that an operation has pointers to
Objects(r) == {r.data, r.key} \cup (IF r.op = "rekey" THEN {r.diff_key} ELSE {})

\* C25: every call of the mask primitive that an operation of a cell makes
\* has both pointers aligned for T, each the start of an object of
\* size_of::<T>() bytes (the Box, the key field or the local diff_key), and
\* the two regions disjoint, or the same in drop and only there: outside drop
\* the pair is data with key, data with diff_key or key with diff_key.
CallsMeetPreconditions ==
    \A i \in DOMAIN run.log :
        run.log[i].ev = "xor" =>
            LET e == run.log[i]
                t == [size |-> run.size, align |-> run.align]
            IN /\ e.data % t.align = 0 /\ e.key % t.align = 0
               /\ e.data \in Objects(run) /\ e.key \in Objects(run)
               /\ e.data + t.size <= PtrLen /\ e.key + t.size <= PtrLen
               /\ e.data = e.key \/ Apart(e.data, e.key, t)
               /\ IF run.op = "drop"
                  THEN e.data = e.key
                  ELSE /\ <<e.data, e.key>> \in {<<run.data, run.key>>,
                                                 <<run.data, run.diff_key>>,
                                                 <<run.key, run.diff_key>>}
                       /\ t.size > 0 => e.data # e.key

CallsMeetPreconditions_witness ==
    /\ Done(run) /\ run.op = "drop_in_place" /\ run.kind = "arbitrary"
    /\ run.size = SizeOfT /\ run.align = 1 /\ run.key = run.data + SizeOfT
    /\ Len(run.log) = 5 /\ ~run.log[3].ok

\* the optional and the value it holds are as they were before the step
OptionKept ==
    /\ option' = option
    /\ option.tag = "Some" =>
          /\ option.ptr \in allocated'
          /\ mem'[option.ptr] = mem[option.ptr]
          /\ val'[option.ptr] = "init" /\ drops'[option.ptr] = 0
          /\ Mask("arbitrary", mem'[option.ptr], option.key) = last'[option.ptr]

\* the step in which f panics
PanicStep ==
    frame.op = "insert_by_ptr" /\ hist'[newbox.ptr].panicked => OptionKept

\* the step that unwinds insert_by_ptr after a panic of f
UnwindStep ==
    frame.op = "RemangleGuard" /\ frame.who = "new" /\ hist[newbox.ptr].panicked =>
        /\ frame' = Idle /\ OptionKept
        /\ newbox' = NoCell
        /\ mem'[newbox.ptr] = Zero /\ newbox.ptr \notin allocated'
        /\ drops'[newbox.ptr] = drops[newbox.ptr]
        /\ val'[newbox.ptr] = val[newbox.ptr] /\ val[newbox.ptr] # "dropped"

\* the step of an insert_by_ptr that panics in new()
NoKeygenStep ==
    frame = Idle /\ frame' = Idle /\ getrandom' = 1 =>
        /\ OptionKept
        /\ newbox' = newbox /\ allocated' = allocated
        /\ val' = val /\ drops' = drops

\* C24: an insert_by_ptr whose f panics, or whose new() panics for want of
\* entropy, leaves the optional as it was: None stays None, and a value held
\* stays in its cell, masked with its key and with its destructor not run.
\* The new cell of a panicked f is wiped and freed, and no destructor runs on
\* what f left in it.
FailedInsertKeepsOption == [][PanicStep /\ UnwindStep /\ NoKeygenStep]_vars

\* f wrote into the new cell and panicked, and the optional holds a value
FailedInsertKeepsOption_witness ==
    /\ frame = [op |-> "RemangleGuard", who |-> "new"]
    /\ hist[newbox.ptr].panicked /\ mem[newbox.ptr] = Ones
    /\ option.tag = "Some" /\ last[option.ptr] = Unit /\ option.key = Ones
    /\ mem[option.ptr] = XorImage(Unit, Ones)

=============================================================================
